---- MODULE Spec2Model ----
(***************************************************************************)
(* DavResource (djangodav/resources.py): a handle over one node of a       *)
(* path-addressed store, with recursive delete, copy, move and descendant  *)
(* enumeration, and the etag fingerprint.                                  *)
(*                                                                         *)
(* The store is a function from the existing paths to their nodes.  A path *)
(* is the sequence of its segments; <<>> is the namespace root.            *)
(***************************************************************************)
EXTENDS Integers, Sequences, FiniteSets, TLC

VARIABLES fs, last, obs

vars == <<fs, last, obs>>

Names == {"a", "b"}

\* longest path a request names
MaxArgLen == 2
\* deepest path the store accepts (longer ones fail, as ENAMETOOLONG does)
MaxPathLen == 4
\* operations are applied to stores of at most this many nodes below the root
MaxNodes == 4
\* item contents are 1..MaxContent
MaxContent == 2
\* depth arguments are -1..MaxDepth
MaxDepth == 1
\* modification times are 0..MaxStamp hundredths of a second
MaxStamp == 11
\* sizes are 0..MaxSize bytes
MaxSize == 10

PathsUpTo(n) == UNION {[1..k -> Names] : k \in 0..n}

PathArgs == PathsUpTo(MaxArgLen)

DepthArgs == (-1)..MaxDepth

Contents == 1..MaxContent

\* the orders os.listdir may return the entries of a directory in
ListOrders ==
    {s \in [1..Cardinality(Names) -> Names] : \A n \in Names : \E i \in DOMAIN s : s[i] = n}

DirNode == [type |-> "dir", content |-> 0]

FileNode(c) == [type |-> "file", content |-> c]

IsPrefix(p, q) == Len(p) <= Len(q) /\ SubSeq(q, 1, Len(p)) = p

Parent(p) == SubSeq(p, 1, Len(p) - 1)

\* ---------------------------------------------------------------------
\* Path helpers of the resource
\* ---------------------------------------------------------------------

\* djangodav.utils.safe_join(base, name): the path of name under base
safe_join(base, name) == Append(base, name)

\* os.path.basename(self.path)
get_name(p) == IF p = <<>> THEN "" ELSE p[Len(p)]

\* ---------------------------------------------------------------------
\* Live queries against the store
\* ---------------------------------------------------------------------

isdir(s, p) == p \in DOMAIN s /\ s[p].type = "dir"

isfile(s, p) == p \in DOMAIN s /\ s[p].type = "file"

exists(s, p) == p \in DOMAIN s

\* the directory that would hold p exists (the namespace root lives in a
\* directory outside the namespace)
ParentIsDir(s, p) == p = <<>> \/ isdir(s, Parent(p))

\* os.listdir as get_children reads it: the entry names, in the order ord
listdir(s, p, ord) == SelectSeq(ord, LAMBDA n : Append(p, n) \in DOMAIN s)

\* ---------------------------------------------------------------------
\* Store primitives.  A world w is the store, the pending exception
\* ("ok" when none), the number of delete/copy/move calls made so far and
\* the log of the paths removed, in order.  A primitive entered with an
\* exception pending does nothing: the exception is propagating.
\* ---------------------------------------------------------------------

World(s) == [fs |-> s, err |-> "ok", calls |-> 0, log |-> <<>>]

Raise(w, e) == [w EXCEPT !.err = e]

Without(s, p) == [q \in DOMAIN s \ {p} |-> s[q]]

With(s, p, node) == [q \in DOMAIN s \cup {p} |-> IF q = p THEN node ELSE s[q]]

\* os.rmdir
rmdir(w, p) ==
    IF w.err # "ok" THEN w
    ELSE IF ~exists(w.fs, p) THEN Raise(w, "ENOENT")
    ELSE IF ~isdir(w.fs, p) THEN Raise(w, "ENOTDIR")
    ELSE IF \E q \in DOMAIN w.fs : q # p /\ IsPrefix(p, q) THEN Raise(w, "ENOTEMPTY")
    ELSE [w EXCEPT !.fs = Without(w.fs, p), !.log = Append(@, p)]

\* os.remove
remove(w, p) ==
    IF w.err # "ok" THEN w
    ELSE IF ~exists(w.fs, p) THEN Raise(w, "ENOENT")
    ELSE IF isdir(w.fs, p) THEN Raise(w, "EISDIR")
    ELSE [w EXCEPT !.fs = Without(w.fs, p), !.log = Append(@, p)]

\* DavResource.mkdir: os.mkdir
mkdir(w, p) ==
    IF w.err # "ok" THEN w
    ELSE IF Len(p) > MaxPathLen THEN Raise(w, "ENAMETOOLONG")
    ELSE IF exists(w.fs, p) THEN Raise(w, "EEXIST")
    ELSE IF ~ParentIsDir(w.fs, p) THEN Raise(w, "ENOENT")
    ELSE [w EXCEPT !.fs = With(w.fs, p, DirNode)]

\* a copy that creates the destination and copies no bytes
shutil_copy_empty(w, src, dst) ==
    IF w.err # "ok" \/ ~isfile(w.fs, src) \/ ~ParentIsDir(w.fs, dst) THEN Raise(w, "ENOENT")
    ELSE [w EXCEPT !.fs = With(w.fs, dst, FileNode(0))]

\* shutil.copy(src, dst): into dst/basename(src) when dst is a directory
shutil_copy(w, src, dst) ==
    LET to == IF isdir(w.fs, dst) THEN safe_join(dst, get_name(src)) ELSE dst
    IN  IF w.err # "ok" THEN w
        ELSE IF Len(to) > MaxPathLen THEN Raise(w, "ENAMETOOLONG")
        ELSE IF ~exists(w.fs, src) THEN Raise(w, "ENOENT")
        ELSE IF isdir(w.fs, src) THEN Raise(w, "EISDIR")
        ELSE IF to = src THEN Raise(w, "SameFile")
        ELSE IF isdir(w.fs, to) THEN Raise(w, "EISDIR")
        ELSE IF ~ParentIsDir(w.fs, to) THEN Raise(w, "ENOENT")
        ELSE [w EXCEPT !.fs = With(w.fs, to, FileNode(w.fs[src].content))]

\* the nodes of the subtree at src, re-rooted at dst
Rerooted(s, src, dst) ==
    LET moved == {q \in DOMAIN s : IsPrefix(src, q)}
        to(q) == dst \o SubSeq(q, Len(src) + 1, Len(q))
        kept == DOMAIN s \ moved
    IN  [q \in kept \cup {to(m) : m \in moved} |->
            IF q \in kept THEN s[q]
            ELSE s[CHOOSE m \in moved : to(m) = q]]

\* a rename that leaves the source in place
rename_keeping_source(w, src, dst) ==
    IF w.err # "ok" \/ ~exists(w.fs, src) \/ ~ParentIsDir(w.fs, dst) THEN Raise(w, "ENOENT")
    ELSE [w EXCEPT !.fs = With(w.fs, dst, w.fs[src])]

\* os.rename(src, dst)
rename(w, src, dst) ==
    IF w.err # "ok" THEN w
    ELSE IF Len(dst) > MaxPathLen THEN Raise(w, "ENAMETOOLONG")
    ELSE IF ~exists(w.fs, src) THEN Raise(w, "ENOENT")
    ELSE IF ~ParentIsDir(w.fs, dst) THEN Raise(w, "ENOENT")
    ELSE IF src = dst THEN w
    ELSE IF isdir(w.fs, src) /\ IsPrefix(src, dst) THEN Raise(w, "EINVAL")
    ELSE IF isdir(w.fs, dst) /\ ~isdir(w.fs, src) THEN Raise(w, "EISDIR")
    ELSE IF isdir(w.fs, src) /\ isfile(w.fs, dst) THEN Raise(w, "ENOTDIR")
    ELSE IF \E q \in DOMAIN w.fs : q # dst /\ IsPrefix(dst, q) THEN Raise(w, "ENOTEMPTY")
    ELSE [w EXCEPT !.fs = Rerooted(Without(w.fs, dst), src, dst)]

\* file(path, 'w') and copyfileobj: DavResource.write
write(w, p, c) ==
    IF w.err # "ok" THEN w
    ELSE IF Len(p) > MaxPathLen THEN Raise(w, "ENAMETOOLONG")
    ELSE IF isdir(w.fs, p) THEN Raise(w, "EISDIR")
    ELSE IF ~ParentIsDir(w.fs, p) THEN Raise(w, "ENOENT")
    ELSE [w EXCEPT !.fs = With(w.fs, p, FileNode(c))]

\* ---------------------------------------------------------------------
\* Traversal
\* ---------------------------------------------------------------------

\* DavResource.get_children: the child paths, or the error os.listdir raises
get_children(s, p, ord) ==
    IF isdir(s, p)
    THEN LET names == listdir(s, p, ord)
         IN  [err |-> "ok", kids |-> [i \in 1..Len(names) |-> Append(p, names[i])]]
    ELSE [err |-> IF exists(s, p) THEN "ENOTDIR" ELSE "ENOENT", kids |-> <<>>]

\* an off-by-one depth test
DescRecursesOffByOne(depth) == depth # 1

\* the test "if depth != 0" of get_descendants
DescRecurses(depth) == depth # 0

RECURSIVE get_descendants(_, _, _, _, _, _)
RECURSIVE descEach(_, _, _, _, _)

\* the loop over the children: each is visited with include_self=True
descEach(s, r, kids, depth, ord) ==
    IF kids = <<>> \/ r.err # "ok" THEN r
    ELSE descEach(s, get_descendants(s, r, Head(kids), depth, TRUE, ord), Tail(kids), depth, ord)

\* DavResource.get_descendants, consumed to its end.  r accumulates the
\* resources yielded (y), the paths whose listing was read (listed) and the
\* exception that ended the iteration (err).
get_descendants(s, r, p, depth, incl, ord) ==
    IF r.err # "ok" THEN r
    ELSE LET r1 == IF incl THEN [r EXCEPT !.y = Append(@, p)] ELSE r
             ch == get_children(s, p, ord)
             r2 == [r1 EXCEPT !.listed = Append(@, p), !.err = ch.err]
         IN  IF DescRecurses(depth)
             THEN descEach(s, r2, ch.kids, depth - 1, ord)
             ELSE r1

NoYield == [y |-> <<>>, listed |-> <<>>, err |-> "ok"]

\* ---------------------------------------------------------------------
\* DavResource.delete
\* ---------------------------------------------------------------------

RECURSIVE delete(_, _, _)
RECURSIVE deleteEach(_, _, _)

\* a loop that stops after the first child
deleteFirstOnly(w, kids, ord) ==
    IF kids = <<>> \/ w.err # "ok" THEN w
    ELSE delete(w, Head(kids), ord)

deleteEach(w, kids, ord) ==
    IF kids = <<>> \/ w.err # "ok" THEN w
    ELSE deleteEach(delete(w, Head(kids), ord), Tail(kids), ord)

delete(w, p, ord) ==
    IF w.err # "ok" THEN w
    ELSE LET w0 == [w EXCEPT !.calls = @ + 1]
         IN  IF isdir(w0.fs, p)
             THEN rmdir(deleteEach(w0, get_children(w0.fs, p, ord).kids, ord), p)
             ELSE IF isfile(w0.fs, p) THEN remove(w0, p)
             ELSE w0

\* ---------------------------------------------------------------------
\* DavResource.copy
\* ---------------------------------------------------------------------

\* an off-by-one depth test
CopyRecursesOffByOne(depth) == depth # 1

\* the test "if depth != 0" of copy
CopyRecurses(depth) == depth # 0

RECURSIVE copy(_, _, _, _, _)
RECURSIVE copyEach(_, _, _, _, _)

copyEach(w, kids, dst, depth, ord) ==
    IF kids = <<>> \/ w.err # "ok" THEN w
    ELSE copyEach(copy(w, Head(kids), safe_join(dst, get_name(Head(kids))), depth, ord),
                  Tail(kids), dst, depth, ord)

\* a copy that does not clear a collection in the way of an item
copyMerging(w, src, dst, depth, ord) ==
    IF w.err # "ok" THEN w
    ELSE LET w0 == [w EXCEPT !.calls = @ + 1]
         IN  IF isdir(w0.fs, src)
             THEN LET w1 == IF isfile(w0.fs, dst) THEN delete(w0, dst, ord) ELSE w0
                      w2 == IF ~isdir(w1.fs, dst) THEN mkdir(w1, dst) ELSE w1
                      ch == get_children(w2.fs, src, ord)
                  IN  IF w2.err = "ok" /\ CopyRecurses(depth)
                      THEN copyEach(Raise(w2, ch.err), ch.kids, dst, depth - 1, ord)
                      ELSE w2
             ELSE shutil_copy(w0, src, dst)

copy(w, src, dst, depth, ord) ==
    IF w.err # "ok" THEN w
    ELSE LET w0 == [w EXCEPT !.calls = @ + 1]
         IN  IF isdir(w0.fs, src)
             THEN LET w1 == IF isfile(w0.fs, dst) THEN delete(w0, dst, ord) ELSE w0
                      w2 == IF ~isdir(w1.fs, dst) THEN mkdir(w1, dst) ELSE w1
                      ch == get_children(w2.fs, src, ord)
                  IN  IF w2.err = "ok" /\ CopyRecurses(depth)
                      THEN copyEach(Raise(w2, ch.err), ch.kids, dst, depth - 1, ord)
                      ELSE w2
             ELSE LET w1 == IF isdir(w0.fs, dst) THEN delete(w0, dst, ord) ELSE w0
                  IN  shutil_copy(w1, src, dst)

\* ---------------------------------------------------------------------
\* DavResource.move
\* ---------------------------------------------------------------------

RECURSIVE move(_, _, _, _)
RECURSIVE moveEach(_, _, _, _)

moveEach(w, kids, dst, ord) ==
    IF kids = <<>> \/ w.err # "ok" THEN w
    ELSE moveEach(move(w, Head(kids), safe_join(dst, get_name(Head(kids))), ord),
                  Tail(kids), dst, ord)

move(w, src, dst, ord) ==
    IF w.err # "ok" THEN w
    ELSE LET w0 == [w EXCEPT !.calls = @ + 1]
             w1 == IF exists(w0.fs, dst) THEN delete(w0, dst, ord) ELSE w0
         IN  IF w1.err # "ok" THEN w1
             ELSE IF isdir(w1.fs, src)
             THEN LET w2 == mkdir(w1, dst)
                      ch == get_children(w2.fs, src, ord)
                  IN  IF w2.err # "ok" THEN w2
                      ELSE delete(moveEach(Raise(w2, ch.err), ch.kids, dst, ord), src, ord)
             ELSE rename(w1, src, dst)

\* ---------------------------------------------------------------------
\* DavResource.get_etag.  Byte strings are sequences of characters.
\* ---------------------------------------------------------------------

DigitChar == <<"0", "1", "2", "3", "4", "5", "6", "7", "8", "9">>

RECURSIVE str_int(_)

\* str() of a non-negative integer: its decimal text
str_int(n) ==
    IF n < 10 THEN <<DigitChar[n + 1]>>
    ELSE Append(str_int(n \div 10), DigitChar[(n % 10) + 1])

\* str() of a float time stamp of h hundredths of a second: the integer
\* part, a point, and the fraction without trailing zeros (at least one digit)
str_float(h) ==
    LET f == h % 100
    IN  str_int(h \div 100) \o <<".">> \o
        (IF f % 10 = 0 THEN <<DigitChar[(f \div 10) + 1]>>
         ELSE <<DigitChar[(f \div 10) + 1], DigitChar[(f % 10) + 1]>>)

RootDir == <<"/", "r">>

RECURSIVE get_abs_path(_)

\* safe_join(self.root, self.path)
get_abs_path(p) ==
    IF p = <<>> THEN RootDir
    ELSE get_abs_path(Parent(p)) \o <<"/", p[Len(p)]>>

\* hashlib.md5().hexdigest(), taken as injective: the bytes it was fed
hexdigest(bytes) == bytes

\* get_etag of the resource at p whose stat gives mtime and size
get_etag(p, mtime, size) ==
    hexdigest(get_abs_path(p) \o str_float(mtime) \o str_int(size))

\* ---------------------------------------------------------------------
\* The state machine: requests against the store
\* ---------------------------------------------------------------------

RootOnly == [q \in {<<>>} |-> DirNode]

Record(op, src, dst, depth, incl, ord, pre, w, r) ==
    [op |-> op, src |-> src, dst |-> dst, depth |-> depth, incl |-> incl, ord |-> ord,
     pre |-> pre, err |-> w.err, calls |-> w.calls, log |-> w.log,
     y |-> r.y, listed |-> r.listed, yerr |-> r.err]

NoObs == [path |-> <<>>, mtime |-> 0, size |-> 0, etag |-> <<>>]

Idle == Record("none", <<>>, <<>>, 0, FALSE, <<>>, RootOnly, World(RootOnly), NoYield)

Init ==
    /\ fs = RootOnly
    /\ last = Idle
    /\ obs = NoObs

\* a request is taken when the previous one was answered, and while the
\* store is small
Small == last = Idle /\ Cardinality(DOMAIN fs) <= MaxNodes + 1

Apply(op, src, dst, depth, ord, w) ==
    /\ fs' = w.fs
    /\ last' = Record(op, src, dst, depth, FALSE, ord, fs, w, NoYield)
    /\ UNCHANGED obs

Mkdir ==
    /\ Small
    /\ \E p \in PathArgs :
        /\ Apply("mkdir", p, p, 0, <<>>, mkdir(World(fs), p))

Write ==
    /\ Small
    /\ \E p \in PathArgs, c \in Contents :
        /\ Apply("write", p, p, 0, <<>>, write(World(fs), p, c))

Delete ==
    /\ Small
    /\ \E p \in PathArgs, ord \in ListOrders :
        /\ Apply("delete", p, p, 0, ord, delete(World(fs), p, ord))

Copy ==
    /\ Small
    /\ \E src \in PathArgs, dst \in PathArgs, depth \in DepthArgs, ord \in ListOrders :
        /\ Apply("copy", src, dst, depth, ord, copy(World(fs), src, dst, depth, ord))

Move ==
    /\ Small
    /\ \E src \in PathArgs, dst \in PathArgs, ord \in ListOrders :
        /\ Apply("move", src, dst, 0, ord, move(World(fs), src, dst, ord))

Descendants ==
    /\ Small
    /\ \E p \in PathArgs, depth \in DepthArgs, incl \in BOOLEAN, ord \in ListOrders :
        /\ last' = Record("descendants", p, p, depth, incl, ord, fs, World(fs),
                          get_descendants(fs, NoYield, p, depth, incl, ord))
        /\ UNCHANGED <<fs, obs>>

\* the operation has run to completion and its outcome is handed back
Return ==
    /\ last # Idle
    /\ last' = Idle
    /\ UNCHANGED <<fs, obs>>

Next == Mkdir \/ Write \/ Delete \/ Copy \/ Move \/ Descendants \/ Return

Spec == Init /\ [][Next]_vars

\* get_etag of a resource whose stat gives the drawn mtime and size
GetEtag ==
    \E p \in PathArgs, mtime \in 0..MaxStamp, size \in 0..MaxSize :
        /\ obs' = [path |-> p, mtime |-> mtime, size |-> size,
                   etag |-> get_etag(p, mtime, size)]
        /\ UNCHANGED <<fs, last>>

NextEtag == GetEtag

SpecEtag == Init /\ [][NextEtag]_vars

\* ---------------------------------------------------------------------
\* Properties.  In the state a request leaves, last.pre is the store the
\* operation started from and fs the store it left.
\* ---------------------------------------------------------------------

Subtree(s, p) == {q \in DOMAIN s : IsPrefix(p, q)}

HasChildren(s, p) == Subtree(s, p) \ {p} # {}

\* the subtree at p by relative path
Shape(s, p) ==
    [r \in {SubSeq(q, Len(p) + 1, Len(q)) : q \in Subtree(s, p)} |-> s[p \o r]]

\* neither path lies in the other's subtree
Apart(p, q) == ~IsPrefix(p, q) /\ ~IsPrefix(q, p)

\* every node outside the subtrees at p and q is the same in s and t
SameOutside(s, t, p, q) ==
    \A x \in DOMAIN s \cup DOMAIN t :
        (~IsPrefix(p, x) /\ ~IsPrefix(q, x)) =>
            (x \in DOMAIN s /\ x \in DOMAIN t /\ s[x] = t[x])

Range(seq) == {seq[i] : i \in DOMAIN seq}

\* C1: get_descendants(depth=-1, include_self=True) on a collection raises
\* nothing and yields every node of the subtree exactly once, each node
\* before all of its descendants.
C1_AllNodesPreOrder ==
    (last.op = "descendants" /\ last.depth = -1 /\ last.incl /\ isdir(last.pre, last.src)) =>
        /\ last.yerr = "ok"
        /\ Len(last.y) = Cardinality(Subtree(last.pre, last.src))
        /\ Range(last.y) = Subtree(last.pre, last.src)
        /\ \A i, j \in DOMAIN last.y : (i < j) => ~IsPrefix(last.y[j], last.y[i])

\* C2: get_descendants(depth=0) on any resource yields the resource alone
\* when include_self is set and nothing otherwise, reads no directory
\* listing and raises nothing.
C2_DepthZero ==
    (last.op = "descendants" /\ last.depth = 0) =>
        /\ last.yerr = "ok"
        /\ last.listed = <<>>
        /\ last.y = IF last.incl THEN <<last.src>> ELSE <<>>

C2_Witness ==
    /\ last.op = "descendants" /\ last.depth = 0 /\ last.incl
    /\ isdir(last.pre, last.src) /\ HasChildren(last.pre, last.src)

C3_Case ==
    /\ last.op = "copy" /\ last.depth = 0 /\ last.err = "ok"
    /\ isdir(last.pre, last.src) /\ HasChildren(last.pre, last.src)

\* C3 as stated: after copy(destination, depth=0) of a collection with
\* children the destination is a collection with no children, whatever it
\* was before, for a destination apart from the source.
C3_EmptyDestination ==
    (C3_Case /\ Apart(last.src, last.dst)) =>
        (isdir(fs, last.dst) /\ ~HasChildren(fs, last.dst))

\* C3 amended: after copy(destination, depth=0) of a collection with
\* children, to a destination outside the source subtree, the destination
\* is a collection holding exactly what a collection at the destination
\* held before (nothing when the destination was absent or an item): no
\* child of the source is copied.
C3_NothingCopied ==
    (C3_Case /\ ~IsPrefix(last.src, last.dst)) =>
        /\ isdir(fs, last.dst)
        /\ Shape(fs, last.dst) =
              IF isdir(last.pre, last.dst) THEN Shape(last.pre, last.dst)
              ELSE [r \in {<<>>} |-> DirNode]

C3_Witness ==
    /\ C3_Case /\ Apart(last.src, last.dst)
    /\ isdir(last.pre, last.dst) /\ HasChildren(last.pre, last.dst)

\* C4: after copy(destination, depth=-1) of a collection to an absent
\* destination outside the source subtree, the destination subtree equals
\* the source subtree in structure, node types and item contents, and the
\* source subtree is as it was.
C4_FullCopy ==
    (/\ last.op = "copy" /\ last.depth = -1 /\ last.err = "ok"
     /\ isdir(last.pre, last.src) /\ ~exists(last.pre, last.dst)
     /\ ~IsPrefix(last.src, last.dst)) =>
        /\ Shape(fs, last.dst) = Shape(last.pre, last.src)
        /\ Shape(fs, last.src) = Shape(last.pre, last.src)

C4_Witness ==
    /\ last.op = "copy" /\ last.depth = -1 /\ last.err = "ok"
    /\ isdir(last.pre, last.src) /\ ~exists(last.pre, last.dst)
    /\ ~IsPrefix(last.src, last.dst)
    /\ \E q \in Subtree(last.pre, last.src) : isfile(last.pre, q) /\ last.pre[q].content = MaxContent
    /\ \E q \in Subtree(last.pre, last.src) : q # last.src /\ isdir(last.pre, q)

C5_Replaces ==
    /\ (isfile(last.pre, last.src) /\ isdir(last.pre, last.dst)) =>
          /\ fs[last.dst] = last.pre[last.src]
          /\ Subtree(fs, last.dst) = {last.dst}
          /\ Shape(fs, last.src) = Shape(last.pre, last.src)
    /\ (isdir(last.pre, last.src) /\ isfile(last.pre, last.dst)) =>
          /\ isdir(fs, last.dst)
          /\ Shape(fs, last.src) = Shape(last.pre, last.src)

\* C5 as stated: a copy that returns replaces a destination of the other
\* type (an item over a collection: the destination is an item with the
\* source's content and nothing of the collection remains; a collection
\* over an item: the destination is a collection), and the source is
\* unchanged, for every pair of source and destination.
C5_AnyDestination ==
    (last.op = "copy" /\ last.err = "ok") => C5_Replaces

\* C5 amended: the same, for a source and a destination neither of which
\* lies in the other's subtree.
C5_ApartDestination ==
    (last.op = "copy" /\ last.err = "ok" /\ Apart(last.src, last.dst)) => C5_Replaces

C5_Witness ==
    /\ last.op = "copy" /\ last.err = "ok" /\ Apart(last.src, last.dst)
    /\ isfile(last.pre, last.src) /\ isdir(last.pre, last.dst)
    /\ HasChildren(last.pre, last.dst)

\* C6: after move(destination) returns, for an existing source and a
\* destination outside the source subtree, the source path is gone, the
\* destination holds exactly what the source held (so nothing of what the
\* destination held), and every node outside both subtrees is unchanged.
C6_Moved ==
    (/\ last.op = "move" /\ last.err = "ok"
     /\ exists(last.pre, last.src) /\ ~IsPrefix(last.src, last.dst)) =>
        /\ ~exists(fs, last.src)
        /\ Shape(fs, last.dst) = Shape(last.pre, last.src)
        /\ SameOutside(last.pre, fs, last.src, last.dst)

C6_Witness ==
    /\ last.op = "move" /\ last.err = "ok"
    /\ isdir(last.pre, last.src) /\ HasChildren(last.pre, last.src)
    /\ isdir(last.pre, last.dst) /\ HasChildren(last.pre, last.dst)
    /\ Apart(last.src, last.dst)

\* C7: delete() on a collection removes every node of its subtree, each
\* after all of its descendants and the collection last, raises nothing
\* and leaves every other node unchanged; delete() on a path that does not
\* exist raises nothing and leaves the store as it was.
C7_Delete ==
    /\ (last.op = "delete" /\ isdir(last.pre, last.src)) =>
          /\ last.err = "ok"
          /\ DOMAIN fs = DOMAIN last.pre \ Subtree(last.pre, last.src)
          /\ \A q \in DOMAIN fs : fs[q] = last.pre[q]
          /\ Len(last.log) = Cardinality(Subtree(last.pre, last.src))
          /\ Range(last.log) = Subtree(last.pre, last.src)
          /\ \A i, j \in DOMAIN last.log : (i < j) => ~IsPrefix(last.log[i], last.log[j])
    /\ (last.op = "delete" /\ ~exists(last.pre, last.src)) =>
          (last.err = "ok" /\ fs = last.pre /\ last.log = <<>>)

C7_Witness ==
    /\ last.op = "delete" /\ isdir(last.pre, last.src)
    /\ \E q \in Subtree(last.pre, last.src) : Len(q) >= Len(last.src) + 2
    /\ \E q \in DOMAIN fs : q # <<>>

\* C8: with the digest injective, the etag of a path is the same for two
\* stat results exactly when their modification time and size are the
\* same, and two different paths with the same modification time and size
\* have different etags.
C8_EtagTracksStat ==
    (obs.etag # <<>>) =>
        /\ \A m \in 0..MaxStamp, z \in 0..MaxSize :
              (get_etag(obs.path, m, z) = obs.etag) <=> (m = obs.mtime /\ z = obs.size)
        /\ \A p \in PathArgs \ {obs.path} :
              get_etag(p, obs.mtime, obs.size) # obs.etag

\* the calls a delete, copy or move of a store s may make when each node
\* is visited once as a source, once as a destination to clear, and once
\* more to be removed
CallBound(s) == 3 * Cardinality(DOMAIN s)

\* C9: every delete(), copy() and move() ends after a number of calls
\* bounded by the size of the tree it started from, for every source and
\* destination.
C9_CallsBounded ==
    (last.op \in {"delete", "copy", "move"}) => last.calls <= CallBound(last.pre)

\* C10: when move() of an existing item ends, by returning or by raising,
\* an item with the source's content is at the source path or at the
\* destination path.
C10_DataKept ==
    (last.op = "move" /\ isfile(last.pre, last.src)) =>
        \/ (isfile(fs, last.src) /\ fs[last.src] = last.pre[last.src])
        \/ (isfile(fs, last.dst) /\ fs[last.dst] = last.pre[last.src])

====
